---------------------------- MODULE Spec2Model ----------------------------
(***************************************************************************)
(* A model of the NASA outgassing scraper (src/main.py): the page loop of  *)
(* scrape_nasa_outgassing, the row shaping of do_scrape, deduplication,    *)
(* the SpaceX classification, the clean-up of the "Application" column,    *)
(* the column re-ordering and the three writes of main.                    *)
(*                                                                         *)
(* Text is a sequence of one-character strings.  A nullable value is a     *)
(* sequence of length 0 (null) or 1 (the value).  Decimals are integers in *)
(* hundredths (1.0 is 100, 0.1 is 10).                                     *)
(***************************************************************************)
EXTENDS Integers, Sequences, FiniteSets, TLC

VARIABLES source, pc, page_num, df_list, df, requests, responses,
          in_flight, removed, written, error

vars == <<source, pc, page_num, df_list, df, requests, responses,
          in_flight, removed, written, error>>

---------------------------------------------------------------------------
(* Characters and text.                                                    *)

UpperChars ==
    <<"A","B","C","D","E","F","G","H","I","J","K","L","M",
      "N","O","P","Q","R","S","T","U","V","W","X","Y","Z">>

LowerChars ==
    <<"a","b","c","d","e","f","g","h","i","j","k","l","m",
      "n","o","p","q","r","s","t","u","v","w","x","y","z">>

DigitChars == <<"0","1","2","3","4","5","6","7","8","9">>

UpperSet == {UpperChars[i] : i \in DOMAIN UpperChars}

LowerSet == {LowerChars[i] : i \in DOMAIN LowerChars}

DigitSet == {DigitChars[i] : i \in DOMAIN DigitChars}

LowerOf == [c \in UpperSet |->
              LowerChars[CHOOSE i \in DOMAIN UpperChars : UpperChars[i] = c]]

UpperOf == [c \in LowerSet |->
              UpperChars[CHOOSE i \in DOMAIN LowerChars : LowerChars[i] = c]]

ToLower(c) == IF c \in UpperSet THEN LowerOf[c] ELSE c

ToUpper(c) == IF c \in LowerSet THEN UpperOf[c] ELSE c

IsAlnum(c) == c \in UpperSet \cup LowerSet \cup DigitSet

\* The regex class \w, which also decides the word boundary \b.
IsWord(c) == IsAlnum(c) \/ c = "_"

\* Whitespace: the regex class \s and what strip() removes.
IsSpace(c) == c \in {" ", "\t", "\n"}

None == <<>>

Some(v) == <<v>>

\* str.to_titlecase: the first character of each run of alphanumerics in upper
\* case, the rest of the run in lower case.
to_titlecase(s) ==
    [i \in 1..Len(s) |->
        IF i = 1 \/ ~IsAlnum(s[i-1]) THEN ToUpper(s[i]) ELSE ToLower(s[i])]

RECURSIVE LStrip(_)
LStrip(s) == IF s # <<>> /\ IsSpace(Head(s)) THEN LStrip(Tail(s)) ELSE s

RECURSIVE RStrip(_)
RStrip(s) ==
    IF s # <<>> /\ IsSpace(s[Len(s)]) THEN RStrip(SubSeq(s, 1, Len(s) - 1)) ELSE s

\* str.strip_chars() / str.strip(): whitespace removed at both ends.
strip_chars(s) == RStrip(LStrip(s))

---------------------------------------------------------------------------
(* Regular expressions, as far as src/main.py uses them: a sequence of     *)
(* atoms (a character class with a repetition range), optionally case-     *)
(* insensitive and anchored by \b at either end.  Matching is leftmost,    *)
(* greedy, with backtracking.                                              *)

In(S) == [k |-> "in", set |-> S, lo |-> 1, hi |-> 1]

Ch(c) == In({c})

Dot == [k |-> "dot", set |-> {}, lo |-> 1, hi |-> 1]

WordCh == [k |-> "w", set |-> {}, lo |-> 1, hi |-> 1]

SpaceCh == [k |-> "s", set |-> {}, lo |-> 1, hi |-> 1]

\* a?  a+  a*   (hi = -1: no upper limit)
Opt(a) == [a EXCEPT !.lo = 0]

Plus(a) == [a EXCEPT !.hi = -1]

Star(a) == [a EXCEPT !.lo = 0, !.hi = -1]

Lit(w) == [i \in 1..Len(w) |-> Ch(w[i])]

Regex(atoms, ci, wbStart, wbEnd) ==
    [atoms |-> IF ci
               THEN [i \in 1..Len(atoms) |->
                        [atoms[i] EXCEPT !.set = {ToLower(c) : c \in atoms[i].set}]]
               ELSE atoms,
     ci |-> ci, wbStart |-> wbStart, wbEnd |-> wbEnd]

AtomMatches(a, ci, c) ==
    CASE a.k = "in"  -> (IF ci THEN ToLower(c) ELSE c) \in a.set
      [] a.k = "dot" -> c # "\n"
      [] a.k = "w"   -> IsWord(c)
      [] a.k = "s"   -> IsSpace(c)

\* \b at position i (between s[i-1] and s[i]).
IsBoundary(s, i) ==
    LET before == i > 1 /\ IsWord(s[i-1])
        after  == i <= Len(s) /\ IsWord(s[i])
    IN  before # after

\* The number of characters from position i on that atom a can take, at most cap.
RECURSIVE RunLen(_, _, _, _, _)
RunLen(a, ci, s, i, cap) ==
    IF cap = 0 \/ i > Len(s) \/ ~AtomMatches(a, ci, s[i]) THEN 0
    ELSE 1 + RunLen(a, ci, s, i + 1, cap - 1)

\* Atoms k.. of p matched at position i: the position after the match, or -1.
RECURSIVE MatchFrom(_, _, _, _)
RECURSIVE TryCount(_, _, _, _, _)
MatchFrom(p, k, s, i) ==
    IF k > Len(p.atoms)
    THEN IF p.wbEnd /\ ~IsBoundary(s, i) THEN -1 ELSE i
    ELSE LET a == p.atoms[k]
             cap == IF a.hi < 0 THEN Len(s) ELSE a.hi
         IN  TryCount(p, k, s, i, RunLen(a, p.ci, s, i, cap))

TryCount(p, k, s, i, c) ==
    IF c < p.atoms[k].lo THEN -1
    ELSE LET e == MatchFrom(p, k + 1, s, i + c)
         IN  IF e # -1 THEN e ELSE TryCount(p, k, s, i, c - 1)

MatchAt(p, s, i) ==
    IF p.wbStart /\ ~IsBoundary(s, i) THEN -1 ELSE MatchFrom(p, 1, s, i)

RECURSIVE ReplaceFrom(_, _, _, _)
ReplaceFrom(p, rep, s, i) ==
    IF i > Len(s) THEN <<>>
    ELSE LET e == MatchAt(p, s, i)
         IN  IF e > i THEN rep \o ReplaceFrom(p, rep, s, e)
             ELSE <<s[i]>> \o ReplaceFrom(p, rep, s, i + 1)

\* str.replace_all(pattern, replacement)
replace_all(s, p, rep) == ReplaceFrom(p, rep, s, 1)

---------------------------------------------------------------------------
(* The clean-up of the "Application" column.                               *)

acronyms ==
    << <<"R","F">>,
       <<"R","F","I">>,
       <<"E","M","C">>,
       <<"E","M","I">>,
       <<"E","S","D">>,
       <<"U","V">>,
       <<"D","V","D">>,
       <<"I","C">>,
       <<"I","D">>,
       <<"P","C">>,
       <<"P","C","B">>,
       <<"L","E","D">>,
       <<"L","C","D">>,
       <<"T","C">>,
       <<"L","R","O">>,
       <<"P","C","B">> >>

substitutions ==
    <<
       \* replace_all("&", " and ", literal=True)
       [pat |-> Regex(Lit(<<"&">>), FALSE, FALSE, FALSE),
        rep |-> <<" ","a","n","d"," ">>],
       \* (?i)\b(Adh)\b
       [pat |-> Regex(Lit(<<"A","d","h">>), TRUE, TRUE, TRUE),
        rep |-> <<"A","d","h","e","s","i","v","e">>],
       \* (?i)\b(Tpe)\b
       [pat |-> Regex(Lit(<<"T","p","e">>), TRUE, TRUE, TRUE),
        rep |-> <<"T","a","p","e">>],
       \* (?i)\b(Anti.?static)\b
       [pat |-> Regex(Lit(<<"A","n","t","i">>) \o <<Opt(Dot)>> \o Lit(<<"s","t","a","t","i","c">>), TRUE, TRUE, TRUE),
        rep |-> <<"A","n","t","i","s","t","a","t","i","c">>],
       \* (?i)\b(Conf)\b
       [pat |-> Regex(Lit(<<"C","o","n","f">>), TRUE, TRUE, TRUE),
        rep |-> <<"C","o","n","f","o","r","m","a","l">>],
       \* (?i)\b(Cond)\b
       [pat |-> Regex(Lit(<<"C","o","n","d">>), TRUE, TRUE, TRUE),
        rep |-> <<"C","o","n","d","u","c","t","i","v","e">>],
       \* (?i)\b(Cpnd)\b
       [pat |-> Regex(Lit(<<"C","p","n","d">>), TRUE, TRUE, TRUE),
        rep |-> <<"C","o","m","p","o","u","n","d">>],
       \* (?i)\b(Cmpd)\b
       [pat |-> Regex(Lit(<<"C","m","p","d">>), TRUE, TRUE, TRUE),
        rep |-> <<"C","o","m","p","o","u","n","d">>],
       \* (?i)\b(Elec)\b
       [pat |-> Regex(Lit(<<"E","l","e","c">>), TRUE, TRUE, TRUE),
        rep |-> <<"E","l","e","c","t","r","i","c","a","l">>],
       \* (?i)\b(electrical.conductive)\b
       [pat |-> Regex(Lit(<<"e","l","e","c","t","r","i","c","a","l">>) \o <<Dot>> \o Lit(<<"c","o","n","d","u","c","t","i","v","e">>), TRUE, TRUE, TRUE),
        rep |-> <<"E","l","e","c","t","r","i","c","a","l","l","y","-","C","o","n","d","u","c","t","i","v","e">>],
       \* (?i)\b(blk)\b
       [pat |-> Regex(Lit(<<"b","l","k">>), TRUE, TRUE, TRUE),
        rep |-> <<"B","l","a","c","k">>],
       \* (?i)\b(unk)\b
       [pat |-> Regex(Lit(<<"u","n","k">>), TRUE, TRUE, TRUE),
        rep |-> <<"U","n","k","n","o","w","n">>],
       \* (?i)\b(vib)\b
       [pat |-> Regex(Lit(<<"v","i","b">>), TRUE, TRUE, TRUE),
        rep |-> <<"V","i","b","r","a","t","i","o","n">>],
       \* (?i)\b(opt)\b
       [pat |-> Regex(Lit(<<"o","p","t">>), TRUE, TRUE, TRUE),
        rep |-> <<"O","p","t","i","c","a","l">>],
       \* (?i)\b(therm?)\b
       [pat |-> Regex(Lit(<<"t","h","e","r">>) \o <<Opt(Ch("m"))>>, TRUE, TRUE, TRUE),
        rep |-> <<"T","h","e","r","m","a","l">>],
       \* (?i)\b(therm\w*.conductive)\b
       [pat |-> Regex(Lit(<<"t","h","e","r","m">>) \o <<Star(WordCh), Dot>> \o Lit(<<"c","o","n","d","u","c","t","i","v","e">>), TRUE, TRUE, TRUE),
        rep |-> <<"T","h","e","r","m","a","l","l","y","-","C","o","n","d","u","c","t","i","v","e">>],
       \* (?i)\b(lube)\b
       [pat |-> Regex(Lit(<<"l","u","b","e">>), TRUE, TRUE, TRUE),
        rep |-> <<"L","u","b","r","i","c","a","n","t">>],
       \* (?i)\b(matl|mtl)s?\.?\b
       [pat |-> Regex(<<Ch("m"), Opt(Ch("a")), Ch("t"), Ch("l"), Opt(Ch("s")), Opt(Ch("."))>>, TRUE, TRUE, TRUE),
        rep |-> <<"M","a","t","e","r","i","a","l">>],
       \* (?i)\bmaerials\b
       [pat |-> Regex(Lit(<<"m","a","e","r","i","a","l","s">>), TRUE, TRUE, TRUE),
        rep |-> <<"M","a","t","e","r","i","a","l","s">>],
       \* (?i)\bcoatint\b
       [pat |-> Regex(Lit(<<"c","o","a","t","i","n","t">>), TRUE, TRUE, TRUE),
        rep |-> <<"C","o","a","t","i","n","g">>],
       \* (?i)\bWrap+i[nm]g\b
       [pat |-> Regex(Lit(<<"W","r","a">>) \o <<Plus(Ch("p")), Ch("i"), In({"n","m"}), Ch("g")>>, TRUE, TRUE, TRUE),
        rep |-> <<"W","r","a","p","p","i","n","g">>],
       \* \s+
       [pat |-> Regex(<<Plus(SpaceCh)>>, FALSE, FALSE, FALSE),
        rep |-> <<" ">>],
       \* 3.?[Dd]
       [pat |-> Regex(<<Ch("3"), Opt(Dot), In({"D","d"})>>, FALSE, FALSE, FALSE),
        rep |-> <<"3","D">>],
       \* (?i)\b[0O].?ring\b
       [pat |-> Regex(<<In({"0","O"}), Opt(Dot)>> \o Lit(<<"r","i","n","g">>), TRUE, TRUE, TRUE),
        rep |-> <<"O","-","R","i","n","g">>],
       \* (?i)\band\b
       [pat |-> Regex(Lit(<<"a","n","d">>), TRUE, TRUE, TRUE),
        rep |-> <<"a","n","d">>],
       \* (?i)\bfor\b
       [pat |-> Regex(Lit(<<"f","o","r">>), TRUE, TRUE, TRUE),
        rep |-> <<"f","o","r">>],
       \* replace_all(".", "", literal=True)
       [pat |-> Regex(Lit(<<".">>), FALSE, FALSE, FALSE),
        rep |-> <<>>],
       \* \s+
       [pat |-> Regex(<<Plus(SpaceCh)>>, FALSE, FALSE, FALSE),
        rep |-> <<" ">>]
    >>

corrections ==
    << [old |-> <<"2"," ","S","i","d","e"," ","T","a","p","e">>,
        new |-> <<"T","a","p","e",","," ","D","o","u","b","l","e","-","S","i","d","e","d">>],
       [old |-> <<"2"," ","S","i","d","e","d"," ","T","a","p","e">>,
        new |-> <<"T","a","p","e",","," ","D","o","u","b","l","e","-","S","i","d","e","d">>],
       [old |-> <<"T","a","p","e"," ","2"," ","S","i","d","e">>,
        new |-> <<"T","a","p","e",","," ","D","o","u","b","l","e","-","S","i","d","e","d">>],
       [old |-> <<"T","a","p","e"," ","2"," ","S","i","d","e","d">>,
        new |-> <<"T","a","p","e",","," ","D","o","u","b","l","e","-","S","i","d","e","d">>],
       [old |-> <<"C","a","p","i","c","a","t","o","r">>,
        new |-> <<"C","a","p","a","c","i","t","o","r">>],
       [old |-> <<"E","l","e","c","t","r","i","c","a","l"," ","C","o","m","p">>,
        new |-> <<"E","l","e","c","t","r","i","c","a","l"," ","C","o","m","p","o","n","e","n","t">>],
       [old |-> <<"E","l","e","c","t","r","i","c","a","l"," ","C","o","m","p","o","n","e","n","t","s">>,
        new |-> <<"E","l","e","c","t","r","i","c","a","l"," ","C","o","m","p","o","n","e","n","t">>],
       [old |-> <<"P","C"," ","B","o","a","r","d">>,
        new |-> <<"P","C","B">>] >>

\* The acronym loop: each acronym, matched case-insensitively as a whole word,
\* is put in its upper-case form.
RECURSIVE ApplyAcronyms(_, _)
ApplyAcronyms(s, k) ==
    IF k > Len(acronyms) THEN s
    ELSE LET t == replace_all(s, Regex(Lit(acronyms[k]), TRUE, TRUE, TRUE),
                              acronyms[k])
         IN  IF t = s THEN ApplyAcronyms(s, k + 1) ELSE ApplyAcronyms(t, k + 1)

\* The chain of str.replace_all calls, in the order written.
RECURSIVE ApplySubstitutions(_, _)
ApplySubstitutions(s, k) ==
    IF k > Len(substitutions) THEN s
    ELSE LET t == replace_all(s, substitutions[k].pat, substitutions[k].rep)
         IN  IF t = s THEN ApplySubstitutions(s, k + 1)
             ELSE ApplySubstitutions(t, k + 1)

\* .replace({...}): a value equal to a key becomes that key's value.
ApplyCorrections(s) ==
    IF \E k \in DOMAIN corrections : corrections[k].old = s
    THEN corrections[CHOOSE k \in DOMAIN corrections : corrections[k].old = s].new
    ELSE s

\* Everything done to one non-null Application in the clean-up.
CleanApplication(s) ==
    ApplyCorrections(
        strip_chars(ApplySubstitutions(ApplyAcronyms(to_titlecase(s), 1), 1)))

---------------------------------------------------------------------------
(* Column names.                                                           *)

Material == <<"M","a","t","e","r","i","a","l">>

Application == <<"A","p","p","l","i","c","a","t","i","o","n">>

TML_Pct == <<"T","M","L","_","P","c","t">>

WVR_Pct == <<"W","V","R","_","P","c","t">>

CVCM_Pct == <<"C","V","C","M","_","P","c","t">>

RML_Pct == <<"R","M","L","_","P","c","t">>

Year == <<"Y","e","a","r">>

SpaceX_Classification == <<"S","p","a","c","e","X","_","C","l","a","s","s","i","f","i","c","a","t","i","o","n">>

Data_Ref == <<"D","a","t","a","_","R","e","f">>

Manufacturer == <<"M","a","n","u","f","a","c","t","u","r","e","r">>

Raw_Application == <<"R","a","w","_","A","p","p","l","i","c","a","t","i","o","n">>

HdrTML == <<"T","M","L"," ","%">>

HdrWVR == <<"W","V","R">>

HdrCVCM == <<"C","V","C","M">>

HdrMfr == <<"M","f","r",".">>

HdrDataRef == <<"D","a","t","a"," ","R","e","f">>

HdrCureTime == <<"C","u","r","e"," ","T","i","m","e">>

HdrAtm == <<"A","t","m">>

---------------------------------------------------------------------------
(* Sequences and data frames.  A frame is [cols, rows]: the column names   *)
(* in order, and the rows, each a function from the column names to        *)
(* nullable values.                                                        *)

ToSet(q) == {q[i] : i \in DOMAIN q}

Contains(q, x) == \E i \in DOMAIN q : q[i] = x

HasDuplicates(q) == \E i, j \in DOMAIN q : i < j /\ q[i] = q[j]

\* The position of x in q (x occurs in q).
IndexOf(q, x) == CHOOSE i \in DOMAIN q : q[i] = x /\ \A j \in 1..(i-1) : q[j] # x

RECURSIVE Flatten(_)
Flatten(qq) == IF qq = <<>> THEN <<>> ELSE Head(qq) \o Flatten(Tail(qq))

RECURSIVE SelectSeqBy(_, _)
SelectSeqBy(q, keep) ==
    IF q = <<>> THEN <<>>
    ELSE (IF Head(q) \in keep THEN <<Head(q)>> ELSE <<>>) \o SelectSeqBy(Tail(q), keep)

\* df.with_columns(name = expr): an existing column is replaced in place, a new
\* one is appended; values[i] is the value of expr on row i.
with_column(frame, name, values) ==
    LET cols == IF Contains(frame.cols, name) THEN frame.cols
                ELSE Append(frame.cols, name)
    IN  [cols |-> cols,
         rows |-> [i \in DOMAIN frame.rows |->
                     [c \in ToSet(cols) |->
                        IF c = name THEN values[i] ELSE frame.rows[i][c]]]]

\* df.rename(...): column i is given the name names[i].
rename(frame, names) ==
    [cols |-> names,
     rows |-> [i \in DOMAIN frame.rows |->
                 [c \in ToSet(names) |->
                    frame.rows[i][frame.cols[CHOOSE j \in DOMAIN names : names[j] = c]]]]]

\* df.select(cols): the named columns, in the order named.
select(frame, cols) ==
    [cols |-> cols,
     rows |-> [i \in DOMAIN frame.rows |-> [c \in ToSet(cols) |-> frame.rows[i][c]]]]

---------------------------------------------------------------------------
(* do_scrape: the shaping of one page's table.                             *)

\* The fixed renames of do_scrape.
RenameMap(col) ==
    CASE col = HdrTML  -> TML_Pct
      [] col = HdrWVR  -> WVR_Pct
      [] col = HdrCVCM -> CVCM_Pct
      [] col = HdrMfr  -> Manufacturer
      [] OTHER         -> col

RenamedColumns == <<HdrTML, HdrWVR, HdrCVCM, HdrMfr>>

\* lambda col: col.strip().replace(" ", "_")
UnderscoreName(col) ==
    replace_all(strip_chars(col), Regex(Lit(<<" ">>), FALSE, FALSE, FALSE), <<"_">>)

\* .str.strip_chars().replace("", None) on one cell.
StripCell(cell) ==
    IF cell = None THEN None
    ELSE IF strip_chars(cell[1]) = <<>> THEN None ELSE Some(strip_chars(cell[1]))

DigitVal(c) == (CHOOSE i \in DOMAIN DigitChars : DigitChars[i] = c) - 1

AllDigits(s) == \A i \in DOMAIN s : s[i] \in DigitSet

RECURSIVE DigitsValue(_)
DigitsValue(s) ==
    IF s = <<>> THEN 0
    ELSE 10 * DigitsValue(SubSeq(s, 1, Len(s) - 1)) + DigitVal(s[Len(s)])

\* Text of the form [-]digits[.digits] .
IsDecimalText(s) ==
    LET u == IF s # <<>> /\ Head(s) = "-" THEN Tail(s) ELSE s
    IN  \/ u # <<>> /\ AllDigits(u)
        \/ \E d \in DOMAIN u :
              /\ u[d] = "."
              /\ d > 1
              /\ AllDigits(SubSeq(u, 1, d - 1))
              /\ AllDigits(SubSeq(u, d + 1, Len(u)))

\* The value of decimal text, in hundredths (two fractional digits are kept).
DecimalValue(s) ==
    LET neg == Head(s) = "-"
        u == IF neg THEN Tail(s) ELSE s
        d == IF Contains(u, ".") THEN IndexOf(u, ".") ELSE Len(u) + 1
        frac == SubSeq(u, d + 1, Len(u)) \o <<"0", "0">>
        mag == 100 * DigitsValue(SubSeq(u, 1, d - 1)) + DigitsValue(SubSeq(frac, 1, 2))
    IN  IF neg THEN 0 - mag ELSE mag

\* cast(pl.Decimal) of one cell: null stays null; text that is no number fails.
CastDecimalOk(cell) == cell = None \/ IsDecimalText(cell[1])

CastDecimal(cell) == IF cell = None THEN None ELSE Some(DecimalValue(cell[1]))

\* cast(pl.Float64).cast(pl.UInt16) of one cell: the fraction is dropped; a
\* value outside 0..65535 fails.
CastYearOk(cell) ==
    \/ cell = None
    \/ /\ IsDecimalText(cell[1])
       /\ DecimalValue(cell[1]) >= 0
       /\ DecimalValue(cell[1]) \div 100 <= 65535

CastYear(cell) == IF cell = None THEN None ELSE Some(DecimalValue(cell[1]) \div 100)

\* A subtraction that leaves a null WVR_Pct null.
NoFill(v, d) == v

\* pl.col("WVR_Pct").fill_null(0.0)
fill_null(v, d) == IF v = None THEN Some(d) ELSE v

\* Decimal subtraction; null if either side is null.
DecSub(a, b) == IF a = None \/ b = None THEN None ELSE Some(a[1] - b[1])

\* RML_Pct = pl.col("TML_Pct") - pl.col("WVR_Pct").fill_null(0.0)
RML_Expr(row) == DecSub(row[TML_Pct], fill_null(row[WVR_Pct], 0))

\* pd.read_html + pl.from_pandas: the page's table as a frame of text cells.
TableFrame(table) ==
    [cols |-> table.cols,
     rows |-> [i \in DOMAIN table.rows |->
                 [c \in ToSet(table.cols) |-> table.rows[i][IndexOf(table.cols, c)]]]]

\* Whether the shaping of a table goes through (no exception).
ShapeOk(table) ==
    LET names == [i \in DOMAIN table.cols |-> UnderscoreName(RenameMap(table.cols[i]))]
    IN  /\ \A i \in DOMAIN RenamedColumns : Contains(table.cols, RenamedColumns[i])
        /\ ~HasDuplicates(names)
        /\ Contains(names, Year)
        /\ \A i \in DOMAIN table.rows :
              /\ \A c \in {HdrTML, HdrWVR, HdrCVCM} :
                    CastDecimalOk(StripCell(table.rows[i][IndexOf(table.cols, c)]))
              /\ CastYearOk(StripCell(table.rows[i][IndexOf(names, Year)]))

\* The frame do_scrape returns for a page with a table.
ShapeFrame(table) ==
    LET raw == TableFrame(table)
        stripped == [raw EXCEPT !.rows =
                        [i \in DOMAIN raw.rows |->
                            [c \in DOMAIN raw.rows[i] |-> StripCell(raw.rows[i][c])]]]
        mapped == rename(stripped,
                         [i \in DOMAIN stripped.cols |-> RenameMap(stripped.cols[i])])
        renamed == rename(mapped,
                          [i \in DOMAIN mapped.cols |-> UnderscoreName(mapped.cols[i])])
        decimals == [renamed EXCEPT !.rows =
                        [i \in DOMAIN renamed.rows |->
                            [c \in DOMAIN renamed.rows[i] |->
                                IF c \in {TML_Pct, WVR_Pct, CVCM_Pct}
                                THEN CastDecimal(renamed.rows[i][c])
                                ELSE renamed.rows[i][c]]]]
    IN  with_column(
            with_column(decimals, Year,
                        [i \in DOMAIN decimals.rows |-> CastYear(decimals.rows[i][Year])]),
            RML_Pct, [i \in DOMAIN decimals.rows |-> RML_Expr(decimals.rows[i])])

---------------------------------------------------------------------------
(* scrape_nasa_outgassing: concatenation, deduplication, classification,   *)
(* clean-up and column order.                                              *)

\* pl.concat(df_list, how="vertical") goes through: the list is not empty and
\* the frames have the same columns.
ConcatOk(frames) ==
    /\ frames # <<>>
    /\ \A i \in DOMAIN frames : frames[i].cols = frames[1].cols

concat(frames) ==
    [cols |-> frames[1].cols,
     rows |-> Flatten([i \in DOMAIN frames |-> frames[i].rows])]

\* The rows not seen before, in order.
RECURSIVE KeepFirst(_, _)
KeepFirst(rows, seen) ==
    IF rows = <<>> THEN <<>>
    ELSE IF Head(rows) \in seen THEN KeepFirst(Tail(rows), seen)
    ELSE <<Head(rows)>> \o KeepFirst(Tail(rows), seen \cup {Head(rows)})

\* A deduplication by the Material column alone.
RECURSIVE KeepFirstMaterial(_, _)
KeepFirstMaterial(rows, seen) ==
    IF rows = <<>> THEN <<>>
    ELSE IF Head(rows)[Material] \in seen THEN KeepFirstMaterial(Tail(rows), seen)
    ELSE <<Head(rows)>> \o KeepFirstMaterial(Tail(rows), seen \cup {Head(rows)[Material]})

UniqueByMaterial(frame) == [frame EXCEPT !.rows = KeepFirstMaterial(frame.rows, {})]

\* df.unique(maintain_order=True): whole rows are compared.
unique(frame) == [frame EXCEPT !.rows = KeepFirst(frame.rows, {})]

\* Comparisons and connectives of polars expressions: a comparison with null is
\* null; & and | follow three-valued logic.
Le3(v, lit) == IF v = None THEN None ELSE Some(v[1] <= lit)

Gt3(v, lit) == IF v = None THEN None ELSE Some(v[1] > lit)

And3(x, y) ==
    IF x = Some(FALSE) \/ y = Some(FALSE) THEN Some(FALSE)
    ELSE IF x = None \/ y = None THEN None ELSE Some(TRUE)

Or3(x, y) ==
    IF x = Some(TRUE) \/ y = Some(TRUE) THEN Some(TRUE)
    ELSE IF x = None \/ y = None THEN None ELSE Some(FALSE)

\* (RML_Pct <= 1.0) & (CVCM_Pct <= 0.1)
PassCondition(row) == And3(Le3(row[RML_Pct], 100), Le3(row[CVCM_Pct], 10))

\* (RML_Pct <= 3.0) & (CVCM_Pct <= 0.1)
CodeACondition(row) == And3(Le3(row[RML_Pct], 300), Le3(row[CVCM_Pct], 10))

\* The third condition with the limit of the first one: (RML_Pct > 1.0) | (CVCM_Pct > 0.1)
CodeBFromPassLimit(row) == Or3(Gt3(row[RML_Pct], 100), Gt3(row[CVCM_Pct], 10))

\* (RML_Pct > 3.0) | (CVCM_Pct > 0.1)
CodeBCondition(row) == Or3(Gt3(row[RML_Pct], 300), Gt3(row[CVCM_Pct], 10))

\* The chain with its first two branches exchanged.
ClassificationCodeAFirst(row) ==
    IF CodeACondition(row) = Some(TRUE)
    THEN Some("Rationale Code A (up to 2 sq-in)")
    ELSE IF PassCondition(row) = Some(TRUE) THEN Some("Pass")
    ELSE IF CodeBCondition(row) = Some(TRUE)
         THEN Some("Rationale Code B (up to 0.25 sq-in)")
    ELSE Some("Fail")

\* pl.when(..).then(..).when(..).then(..).when(..).then(..).otherwise(..): the
\* first condition that is true decides; a null condition does not.
SpaceX_Classification_Expr(row) ==
    IF PassCondition(row) = Some(TRUE) THEN Some("Pass")
    ELSE IF CodeACondition(row) = Some(TRUE)
         THEN Some("Rationale Code A (up to 2 sq-in)")
    ELSE IF CodeBCondition(row) = Some(TRUE)
         THEN Some("Rationale Code B (up to 0.25 sq-in)")
    ELSE Some("Fail")

\* A Raw_Application taken after the title-casing.
RawApplicationTitled(row) ==
    IF row[Application] = None THEN None ELSE Some(to_titlecase(row[Application][1]))

\* Raw_Application=pl.col("Application"): the column as it is in the frame the
\* with_columns call is given.
Raw_Application_Expr(row) == row[Application]

\* The chain of string expressions on pl.col("Application"); null stays null.
Application_Expr(row) ==
    IF row[Application] = None THEN None ELSE Some(CleanApplication(row[Application][1]))

\* The clean-up of the frame: Raw_Application added, Application cleaned.
CleanFrame(frame) ==
    with_column(
        with_column(frame, Raw_Application,
                    [i \in DOMAIN frame.rows |-> Raw_Application_Expr(frame.rows[i])]),
        Application, [i \in DOMAIN frame.rows |-> Application_Expr(frame.rows[i])])

main_cols ==
    <<Material, Application, TML_Pct, WVR_Pct, CVCM_Pct, RML_Pct, Year,
      SpaceX_Classification, Data_Ref, Manufacturer>>

\* OrderedSet(a) - OrderedSet(b)
OrderedSetDifference(a, b) == SelectSeqBy(a, ToSet(a) \ ToSet(b))

\* OrderedSet(a) | OrderedSet(b)
OrderedSetUnion(a, b) == a \o SelectSeqBy(b, ToSet(b) \ ToSet(a))

all_cols(frame) ==
    OrderedSetUnion(main_cols, OrderedSetDifference(frame.cols, main_cols))

\* df.select(all_cols) goes through: every column named is in the frame.
SelectOk(frame, cols) == \A i \in DOMAIN cols : Contains(frame.cols, cols[i])

---------------------------------------------------------------------------
(* The source: a table on pages 1..Len(pages), no table after them, and a  *)
(* non-success status on page `fault` (0: on none).                        *)

ResponseOf(src, p) ==
    IF p = src.fault THEN "error"
    ELSE IF p <= Len(src.pages) THEN "table" ELSE "notable"

PageTable(src, p) == [cols |-> src.header, rows |-> src.pages[p]]

NoError == [kind |-> "none", at |-> "none"]

EmptyFrame == [cols |-> <<>>, rows |-> <<>>]

\* A page loop that steps over a page.
NextPageSkip(p) == p + 2

NextPage(p) == p + 1

---------------------------------------------------------------------------
(* The steps of the program.                                               *)

\* requests.get(url) is called for page_num.
Request ==
    /\ pc = "request"
    /\ requests' = Append(requests, page_num)
    /\ in_flight' = in_flight + 1
    /\ pc' = "response"
    /\ UNCHANGED <<source, page_num, df_list, df, responses, removed, written, error>>

\* A loop that swallows the failure of a page and goes on to the next one.
RespondErrorSkip ==
    /\ pc = "response"
    /\ ResponseOf(source, page_num) = "error"
    /\ responses' = Append(responses, "error")
    /\ in_flight' = in_flight - 1
    /\ page_num' = page_num + 1
    /\ pc' = "request"
    /\ UNCHANGED <<source, df_list, df, requests, removed, written, error>>

\* The response has a non-success status: raise_for_status raises, and nothing
\* catches it.
RespondError ==
    /\ pc = "response"
    /\ ResponseOf(source, page_num) = "error"
    /\ responses' = Append(responses, "error")
    /\ in_flight' = in_flight - 1
    /\ error' = [kind |-> "HTTPError", at |-> "raise_for_status"]
    /\ pc' = "raised"
    /\ UNCHANGED <<source, page_num, df_list, df, requests, removed, written>>

\* The response has no table: do_scrape returns None and the loop is left.
RespondNoTable ==
    /\ pc = "response"
    /\ ResponseOf(source, page_num) = "notable"
    /\ responses' = Append(responses, "notable")
    /\ in_flight' = in_flight - 1
    /\ pc' = "concat"
    /\ UNCHANGED <<source, page_num, df_list, df, requests, removed, written, error>>

\* The response has a table: it is shaped and appended, and the next page is due.
RespondTable ==
    /\ pc = "response"
    /\ ResponseOf(source, page_num) = "table"
    /\ responses' = Append(responses, "table")
    /\ in_flight' = in_flight - 1
    /\ IF ShapeOk(PageTable(source, page_num))
       THEN /\ df_list' = Append(df_list, ShapeFrame(PageTable(source, page_num)))
            /\ page_num' = NextPage(page_num)
            /\ pc' = "request"
            /\ UNCHANGED error
       ELSE /\ error' = [kind |-> "PolarsError", at |-> "do_scrape"]
            /\ pc' = "raised"
            /\ UNCHANGED <<df_list, page_num>>
    /\ UNCHANGED <<source, df, requests, removed, written>>

\* df = pl.concat(df_list, how="vertical")
Concat ==
    /\ pc = "concat"
    /\ IF ConcatOk(df_list)
       THEN /\ df' = concat(df_list)
            /\ pc' = "unique"
            /\ UNCHANGED error
       ELSE /\ error' = [kind |-> IF df_list = <<>> THEN "ValueError" ELSE "ShapeError",
                          at |-> "concat"]
            /\ pc' = "raised"
            /\ UNCHANGED df
    /\ UNCHANGED <<source, page_num, df_list, requests, responses, in_flight,
                   removed, written>>

\* df = df.unique(maintain_order=True), and the count of rows removed.
Unique ==
    /\ pc = "unique"
    /\ df' = unique(df)
    /\ removed' = Len(df.rows) - Len(unique(df).rows)
    /\ pc' = "classify"
    /\ UNCHANGED <<source, page_num, df_list, requests, responses, in_flight,
                   written, error>>

\* The column SpaceX_Classification is added.
Classify ==
    /\ pc = "classify"
    /\ df' = with_column(df, SpaceX_Classification,
                         [i \in DOMAIN df.rows |-> SpaceX_Classification_Expr(df.rows[i])])
    /\ pc' = "clean"
    /\ UNCHANGED <<source, page_num, df_list, requests, responses, in_flight,
                   removed, written, error>>

\* The clean-up of the Application column.
Clean ==
    /\ pc = "clean"
    /\ IF Contains(df.cols, Application)
       THEN /\ df' = CleanFrame(df)
            /\ pc' = "reorder"
            /\ UNCHANGED error
       ELSE /\ error' = [kind |-> "ColumnNotFoundError", at |-> "clean"]
            /\ pc' = "raised"
            /\ UNCHANGED df
    /\ UNCHANGED <<source, page_num, df_list, requests, responses, in_flight,
                   removed, written>>

\* df = df.select(all_cols)
Reorder ==
    /\ pc = "reorder"
    /\ IF SelectOk(df, all_cols(df))
       THEN /\ df' = select(df, all_cols(df))
            /\ pc' = "write_csv"
            /\ UNCHANGED error
       ELSE /\ error' = [kind |-> "ColumnNotFoundError", at |-> "select"]
            /\ pc' = "raised"
            /\ UNCHANGED df
    /\ UNCHANGED <<source, page_num, df_list, requests, responses, in_flight,
                   removed, written>>

\* main: the three files are written, one after the other.
WriteCsv ==
    /\ pc = "write_csv"
    /\ written' = Append(written, "nasa_outgassing.csv")
    /\ pc' = "write_parquet"
    /\ UNCHANGED <<source, page_num, df_list, df, requests, responses, in_flight,
                   removed, error>>

WriteParquet ==
    /\ pc = "write_parquet"
    /\ written' = Append(written, "nasa_outgassing.pq")
    /\ pc' = "write_excel"
    /\ UNCHANGED <<source, page_num, df_list, df, requests, responses, in_flight,
                   removed, error>>

WriteExcel ==
    /\ pc = "write_excel"
    /\ written' = Append(written, "nasa_outgassing.xlsx")
    /\ pc' = "done"
    /\ UNCHANGED <<source, page_num, df_list, df, requests, responses, in_flight,
                   removed, error>>

Next ==
    \/ Request
    \/ RespondError
    \/ RespondNoTable
    \/ RespondTable
    \/ Concat
    \/ Unique
    \/ Classify
    \/ Clean
    \/ Reorder
    \/ WriteCsv
    \/ WriteParquet
    \/ WriteExcel

\* The state when scrape_nasa_outgassing starts, for a given source.
Start(src) ==
    /\ source = src
    /\ pc = "request"
    /\ page_num = 1
    /\ df_list = <<>>
    /\ df = EmptyFrame
    /\ requests = <<>>
    /\ responses = <<>>
    /\ in_flight = 0
    /\ removed = 0
    /\ written = <<>>
    /\ error = NoError

---------------------------------------------------------------------------
(* Sources the program is run against.                                     *)

MaxPages == 2

MaxRows == 2

MaxWords == 2

\* The header of the table.
BaseHeader ==
    <<Material, HdrMfr, HdrTML, HdrCVCM, HdrWVR, HdrCureTime, HdrAtm,
      Application, HdrDataRef, Year>>

\* Two rows of the same Material that differ in other cells.
RowA ==
    [c \in ToSet(BaseHeader) |->
        CASE c = Material    -> Some(<<"R","T","V">>)
          [] c = HdrMfr      -> Some(<<"G","E">>)
          [] c = HdrTML      -> Some(<<"1",".","2">>)
          [] c = HdrCVCM     -> Some(<<"0",".","0","5">>)
          [] c = HdrWVR      -> Some(<<"0",".","3">>)
          [] c = HdrCureTime -> Some(<<"2","4"," ">>)
          [] c = HdrAtm      -> Some(<<"A","I","R">>)
          [] c = Application -> Some(<<"a","d","h">>)
          [] c = HdrDataRef  -> Some(<<"G","S","C","1">>)
          [] c = Year        -> Some(<<"1","9","9","5",".","0">>)]

RowB ==
    [c \in ToSet(BaseHeader) |->
        CASE c = Material    -> Some(<<"R","T","V">>)
          [] c = HdrMfr      -> None
          [] c = HdrTML      -> Some(<<" ","4",".","0">>)
          [] c = HdrCVCM     -> Some(<<"0",".","2">>)
          [] c = HdrWVR      -> Some(<<" ">>)
          [] c = HdrCureTime -> None
          [] c = HdrAtm      -> Some(<<"A","I","R">>)
          [] c = Application -> Some(<<"P","C"," ","B","O","A","R","D">>)
          [] c = HdrDataRef  -> Some(<<"G","S","C","2">>)
          [] c = Year        -> Some(<<"2","0","0","1">>)]

\* The source with the given header, pages of rows, and faulty page.
SourceOf(header, pages, fault) ==
    [header |-> header,
     pages  |-> [p \in DOMAIN pages |->
                   [i \in DOMAIN pages[p] |->
                      [j \in DOMAIN header |-> pages[p][i][header[j]]]]],
     fault  |-> fault]

SeqsUpTo(S, lo, hi) == UNION {[1..k -> S] : k \in lo..hi}

\* Up to MaxPages pages of up to MaxRows rows each, a fault on any page asked for.
PipelineSources ==
    UNION {{SourceOf(BaseHeader, pages, fault) : fault \in 0..(Len(pages) + 1)} :
              pages \in SeqsUpTo(SeqsUpTo({RowA, RowB}, 1, MaxRows), 0, MaxPages)}

\* One row on one page, its TML, WVR and CVCM cells varied.
TMLCells ==
    {None, Some(<<"0",".","5">>), Some(<<"1",".","0">>), Some(<<"1",".","0","1">>),
     Some(<<"2",".","5">>), Some(<<"3",".","0">>), Some(<<"3",".","0","1">>),
     Some(<<"5",".","0">>), Some(<<"n","/","a">>)}

WVRCells == {None, Some(<<"0",".","0","1">>), Some(<<"0",".","5">>)}

CVCMCells ==
    {None, Some(<<"0",".","0","5">>), Some(<<"0",".","1">>), Some(<<"0",".","1","1">>)}

ClassifySources ==
    {SourceOf(BaseHeader,
              <<<<[RowA EXCEPT ![HdrTML] = tml, ![HdrWVR] = wvr, ![HdrCVCM] = cvcm]>>>>,
              fault) :
        tml \in TMLCells, wvr \in WVRCells, cvcm \in CVCMCells, fault \in 0..2}

\* One row on one page, its Application varied: up to MaxWords words with
\* separators between them.
Words ==
    {<<"t","h","e","r","m">>, <<"c","o","n","d">>, <<"a","d","h">>,
     <<"P","C">>, <<"b","o","a","r","d">>, <<"3","3">>, <<"D">>}

Separators == {<<" ">>, <<" "," ">>, <<"."," ">>, <<"&">>}

RECURSIVE Phrases(_)
Phrases(n) ==
    IF n = 1 THEN Words
    ELSE {p \o s \o w : p \in Phrases(n - 1), s \in Separators, w \in Words}

ApplicationCells == {None} \cup {Some(p) : p \in UNION {Phrases(n) : n \in 1..MaxWords}}

CleanSources ==
    {SourceOf(BaseHeader, <<<<[RowA EXCEPT ![Application] = app]>>>>, fault) :
        app \in ApplicationCells, fault \in 0..2}

\* One row on one page, the header varied: the columns rotated, and some left out.
Rotated(h, k) == [i \in DOMAIN h |-> h[((i + k - 1) % Len(h)) + 1]]

Headers ==
    {SelectSeqBy(Rotated(BaseHeader, k), ToSet(BaseHeader) \ out) :
        k \in 0..(Len(BaseHeader) - 1),
        out \in SUBSET {Material, HdrDataRef, HdrCureTime, Application}}

HeaderSources ==
    {SourceOf(h, <<<<RowA>>>>, fault) : h \in Headers, fault \in 0..2}

Init == \E src \in PipelineSources : Start(src)

Spec == Init /\ [][Next]_vars

InitClassify == \E src \in ClassifySources : Start(src)

SpecClassify == InitClassify /\ [][Next]_vars

InitClean == \E src \in CleanSources : Start(src)

SpecClean == InitClean /\ [][Next]_vars

InitColumns == \E src \in HeaderSources : Start(src)

SpecColumns == InitColumns /\ [][Next]_vars

---------------------------------------------------------------------------
(* Properties.                                                             *)

\* The rows do_scrape returns for the first n pages of the source, in page order.
ShapedRows(n) ==
    Flatten([p \in 1..n |-> ShapeFrame(PageTable(source, p)).rows])

\* The rows of the frames fetched, in fetch order.
FetchedRows == Flatten([i \in DOMAIN df_list |-> df_list[i].rows])

LoopLeft == pc \notin {"request", "response"}

\* C1: against a source with a table on pages 1..N (N >= 1) and none on page
\* N+1, the requests are for pages 1, 2, ... in this order, one at a time, there
\* are exactly N+1 of them once the loop is left (none for page N+2), and the
\* frame before deduplication holds the shaped rows of pages 1..N in fetch order.
C1_Pagination ==
    LET N == Len(source.pages)
    IN  (source.fault = 0 /\ N >= 1) =>
            /\ in_flight <= 1
            /\ \A i \in DOMAIN requests : requests[i] = i
            /\ Len(requests) <= N + 1
            /\ LoopLeft => Len(requests) = N + 1
            /\ pc = "unique" => df.rows = ShapedRows(N)

C1_Witness ==
    /\ source.fault = 0
    /\ Len(source.pages) = 2
    /\ pc = "unique"
    /\ requests = <<1, 2, 3>>
    /\ Len(df.rows) >= 3

\* C2: a non-success status on page k ends the run at once: it is the last
\* response and page k the last request, made once; no later page is requested;
\* the exception is not caught and no file is written.
C2_TransportFault ==
    \A k \in DOMAIN responses :
        responses[k] = "error" =>
            /\ k = Len(responses)
            /\ Len(requests) = k
            /\ Cardinality({i \in DOMAIN requests : requests[i] = requests[k]}) = 1
            /\ \A i \in DOMAIN requests : requests[i] <= requests[k]
            /\ in_flight = 0
            /\ pc = "raised"
            /\ error.kind = "HTTPError"
            /\ written = <<>>

C2_Witness ==
    /\ pc = "raised"
    /\ error.kind = "HTTPError"
    /\ Len(df_list) = 2
    /\ responses = <<"table", "table", "error">>

\* C3: whenever a fetched page has no table, on whichever page (page 1 too), the
\* run does not raise, and the frame before deduplication holds the rows of all
\* pages fetched before.
C3_EndOfDataIsNoError ==
    (responses # <<>> /\ responses[Len(responses)] = "notable") =>
        /\ pc # "raised"
        /\ pc = "unique" => df.rows = FetchedRows

\* The first position of row r in rows.
FirstIndex(rows, r) == IndexOf(rows, r)

\* C8: after deduplication no two rows are equal in every field, every row of
\* the input is still there (rows that agree on Material only are both kept),
\* the rows kept are in the order of their first occurrence in fetch order, and
\* the count reported is rows before minus rows after.
C8_Deduplication ==
    pc = "classify" =>
        /\ ~HasDuplicates(df.rows)
        /\ \A i \in DOMAIN df.rows : Contains(FetchedRows, df.rows[i])
        /\ \A j \in DOMAIN FetchedRows : Contains(df.rows, FetchedRows[j])
        /\ \A i, j \in DOMAIN df.rows :
              i < j => FirstIndex(FetchedRows, df.rows[i]) < FirstIndex(FetchedRows, df.rows[j])
        /\ removed = Len(FetchedRows) - Len(df.rows)

\* Rows A, B, A fetched: A, B kept.
C8_Witness ==
    /\ pc = "classify"
    /\ Len(FetchedRows) = 3
    /\ FetchedRows[1] = FetchedRows[3]
    /\ FetchedRows[1] # FetchedRows[2]
    /\ FetchedRows[1][Material] = FetchedRows[2][Material]
    /\ df.rows = <<FetchedRows[1], FetchedRows[2]>>
    /\ removed = 1

\* C9: in every shaped row with a TML_Pct, RML_Pct is TML_Pct minus WVR_Pct,
\* a null WVR_Pct counting as 0.
C9_RML ==
    \A i \in DOMAIN FetchedRows :
        LET row == FetchedRows[i]
        IN  row[TML_Pct] # None =>
                /\ row[RML_Pct] # None
                /\ row[RML_Pct][1] =
                       row[TML_Pct][1] - (IF row[WVR_Pct] = None THEN 0 ELSE row[WVR_Pct][1])

C9_Witness ==
    \E i \in DOMAIN FetchedRows :
        /\ FetchedRows[i][TML_Pct] = Some(250)
        /\ FetchedRows[i][WVR_Pct] = None
        /\ FetchedRows[i][RML_Pct] = Some(250)

Classified == Contains(df.cols, SpaceX_Classification)

\* A comparison in which a null operand makes the comparison false.
LeOrFalse(v, lit) == v # None /\ v[1] <= lit

GtOrFalse(v, lit) == v # None /\ v[1] > lit

\* The decision list of the classification, first match first.
DecisionList(rml, cvcm) ==
    IF LeOrFalse(rml, 100) /\ LeOrFalse(cvcm, 10) THEN "Pass"
    ELSE IF LeOrFalse(rml, 300) /\ LeOrFalse(cvcm, 10)
         THEN "Rationale Code A (up to 2 sq-in)"
    ELSE IF GtOrFalse(rml, 300) \/ GtOrFalse(cvcm, 10)
         THEN "Rationale Code B (up to 0.25 sq-in)"
    ELSE "Fail"

\* C4: the classification of every row is one of the four labels and is what
\* the decision list gives for (RML_Pct, CVCM_Pct), nulls included; (1.0, 0.1)
\* is Pass, (2.5, 0.1) Code A, (5.0, 0.05) Code B and (null, null) Fail.
C4_Classification ==
    Classified =>
        \A i \in DOMAIN df.rows :
            LET row == df.rows[i]
                label == row[SpaceX_Classification]
            IN  /\ label # None
                /\ label[1] \in {"Pass", "Rationale Code A (up to 2 sq-in)",
                                 "Rationale Code B (up to 0.25 sq-in)", "Fail"}
                /\ label[1] = DecisionList(row[RML_Pct], row[CVCM_Pct])
                /\ (row[RML_Pct] = Some(100) /\ row[CVCM_Pct] = Some(10))
                      => label[1] = "Pass"
                /\ (row[RML_Pct] = Some(250) /\ row[CVCM_Pct] = Some(10))
                      => label[1] = "Rationale Code A (up to 2 sq-in)"
                /\ (row[RML_Pct] = Some(500) /\ row[CVCM_Pct] = Some(5))
                      => label[1] = "Rationale Code B (up to 0.25 sq-in)"
                /\ (row[RML_Pct] = None /\ row[CVCM_Pct] = None)
                      => label[1] = "Fail"

\* A row with a null RML_Pct and a CVCM_Pct over the limit is Code B.
C4_Witness ==
    /\ Classified
    /\ \E i \in DOMAIN df.rows :
          /\ df.rows[i][RML_Pct] = None
          /\ df.rows[i][CVCM_Pct] = Some(11)
          /\ df.rows[i][SpaceX_Classification] = Some("Rationale Code B (up to 0.25 sq-in)")

\* The decision list with its third rule tried first.
DecisionListRule3First(rml, cvcm) ==
    IF GtOrFalse(rml, 300) \/ GtOrFalse(cvcm, 10)
    THEN "Rationale Code B (up to 0.25 sq-in)"
    ELSE IF LeOrFalse(rml, 100) /\ LeOrFalse(cvcm, 10) THEN "Pass"
    ELSE IF LeOrFalse(rml, 300) /\ LeOrFalse(cvcm, 10)
         THEN "Rationale Code A (up to 2 sq-in)"
    ELSE "Fail"

\* C10, as amended: no classified row satisfies the third condition together
\* with the first or the second, and trying the third rule first gives the
\* classification the row has.
C10_Rule3Exclusive ==
    Classified =>
        \A i \in DOMAIN df.rows :
            LET row == df.rows[i]
            IN  /\ ~(/\ CodeBCondition(row) = Some(TRUE)
                     /\ \/ PassCondition(row) = Some(TRUE)
                        \/ CodeACondition(row) = Some(TRUE))
                /\ row[SpaceX_Classification] =
                       Some(DecisionListRule3First(row[RML_Pct], row[CVCM_Pct]))

C10_Witness ==
    /\ Classified
    /\ \E i \in DOMAIN df.rows :
          /\ CodeBCondition(df.rows[i]) = Some(TRUE)
          /\ df.rows[i][RML_Pct] = Some(301)
          /\ df.rows[i][CVCM_Pct] = Some(10)

\* C10, as stated: when the rows are classified, some (RML_Pct, CVCM_Pct), nulls
\* allowed, satisfies the third condition and also the first or the second
\* (values from -1.00 to 6.00, and null).
C10_SomeInputOverlaps ==
    Classified =>
        \E rml, cvcm \in {None} \cup {Some(n) : n \in (0 - 100)..600} :
            LET row == [c \in {RML_Pct, CVCM_Pct} |-> IF c = RML_Pct THEN rml ELSE cvcm]
            IN  /\ CodeBCondition(row) = Some(TRUE)
                /\ \/ PassCondition(row) = Some(TRUE)
                   \/ CodeACondition(row) = Some(TRUE)

Cleaned == Contains(df.cols, Raw_Application)

\* The distinct rows fetched, each at its first occurrence.
FirstOccurrences ==
    LET first == {j \in DOMAIN FetchedRows :
                     \A k \in 1..(j - 1) : FetchedRows[k] # FetchedRows[j]}
    IN  [n \in 1..Cardinality(first) |->
            FetchedRows[CHOOSE j \in first : Cardinality({k \in first : k < j}) = n - 1]]

\* C7, as amended: the Raw_Application of every row is the Application as
\* do_scrape returned it, with no title-casing and no other step applied.
C7_RawApplicationIsScraped ==
    Cleaned =>
        /\ Len(df.rows) = Len(FirstOccurrences)
        /\ \A i \in DOMAIN df.rows :
              df.rows[i][Raw_Application] = FirstOccurrences[i][Application]

\* A row whose Raw_Application is neither its title-cased form nor the cleaned
\* Application.
C7_Witness ==
    /\ Cleaned
    /\ \E i \in DOMAIN df.rows :
          LET raw == df.rows[i][Raw_Application]
          IN  /\ raw # None
              /\ raw = FirstOccurrences[i][Application]
              /\ raw[1] # to_titlecase(raw[1])
              /\ raw # df.rows[i][Application]

\* C7, as stated: the Raw_Application of every row is the title-cased form of
\* the scraped Application.
C7_RawApplicationIsTitlecased ==
    Cleaned =>
        /\ Len(df.rows) = Len(FirstOccurrences)
        /\ \A i \in DOMAIN df.rows :
              LET scraped == FirstOccurrences[i][Application]
              IN  df.rows[i][Raw_Application] =
                      (IF scraped = None THEN None ELSE Some(to_titlecase(scraped[1])))

\* C5: the clean-up applied to a cleaned Application changes nothing.
C5_CleanIsIdempotent ==
    Cleaned =>
        \A i \in DOMAIN df.rows :
            LET app == df.rows[i][Application]
            IN  app # None => CleanApplication(app[1]) = app[1]

\* The columns of the frame when the re-ordering starts: those of the pages,
\* then the two added by the classification and the clean-up.
PresentColumns == df_list[1].cols \o <<SpaceX_Classification, Raw_Application>>

\* C6: for any columns present, the re-ordering gives the priority columns that
\* are present, in priority order, then the other columns in the order met:
\* every present column once, no other column.
C6_ColumnOrder ==
    /\ error.at # "select"
    /\ pc \in {"write_csv", "write_parquet", "write_excel", "done"} =>
          /\ df.cols = SelectSeqBy(main_cols, ToSet(PresentColumns))
                          \o SelectSeqBy(PresentColumns,
                                         ToSet(PresentColumns) \ ToSet(main_cols))
          /\ ToSet(df.cols) = ToSet(PresentColumns)
          /\ ~HasDuplicates(df.cols)

===========================================================================
